---- MODULE Spec2Model ----
(***************************************************************************)
(* The XML node tree of package xmlcomparator: UnmarshalXML (parent links  *)
(* and fingerprints), Node.Walk, Node.Path and Node.hashCode.              *)
(*                                                                         *)
(* The model follows the revision of the declarations that fingerprints   *)
(* with CRC-32C (Hash uint32, the recursive method hashCode, Path         *)
(* comparing fingerprints). src/types.go holds an earlier revision of the *)
(* same declarations (Hash int, Path comparing addresses); Walk and the   *)
(* parent wiring of UnmarshalXML are the same in both.                    *)
(*                                                                         *)
(* Strings are sequences of bytes (numbers 0..255); a *Node is the index   *)
(* of the node in the parsed document, nil is 0. The decoder of           *)
(* encoding/xml is outside the model: UnmarshalXML takes what it decodes. *)
(***************************************************************************)
EXTENDS Integers, Sequences, FiniteSets

\* ------------------------------------------------------------ bounds

\* Largest number of elements in a generated document.
MaxNodes == 4

\* Largest number of attributes on the element of a generated
\* single-element document.
MaxAttrs == 3

\* ------------------------------------------------- 32-bit arithmetic

(* A uint32 (the type of Node.Hash) is the pair <<high, low>> of its 16-bit *)
(* halves: every operation below wraps around at 2^32 as Go's does.        *)
Half == 65536

U32(hi, lo) == <<hi, lo>>

Zero32 == U32(0, 0)

RECURSIVE Xor(_, _)
Xor(a, b) ==
    IF a = 0 THEN b
    ELSE IF b = 0 THEN a
    ELSE ((a + b) % 2) + 2 * Xor(a \div 2, b \div 2)

Xor32(x, y) == U32(Xor(x[1], y[1]), Xor(x[2], y[2]))

\* ^x
Not32(x) == U32((Half - 1) - x[1], (Half - 1) - x[2])

\* x >> k, for k < 16
Shr32(x, k) ==
    LET d == 2 ^ k
    IN  U32(x[1] \div d, (x[1] % d) * (Half \div d) + x[2] \div d)

\* MulAdd31 with the multiplier left out: h + c in uint32
MulAdd31NoFactor(h, c) ==
    LET lo == h[2] + c[2]
    IN  U32((h[1] + c[1] + lo \div Half) % Half, lo % Half)

\* 31*h + c in uint32
MulAdd31(h, c) ==
    LET lo == 31 * h[2] + c[2]
    IN  U32((31 * h[1] + c[1] + lo \div Half) % Half, lo % Half)

\* ------------------------------------------------------ hash/crc32

\* crc32.Castagnoli, 0x82f63b78
Castagnoli == U32(33526, 15224)

RECURSIVE TableEntry(_, _)
TableEntry(crc, k) ==
    IF k = 0 THEN crc
    ELSE TableEntry(IF crc[2] % 2 = 1 THEN Xor32(Shr32(crc, 1), Castagnoli)
                                      ELSE Shr32(crc, 1), k - 1)

\* var crc32c = crc32.MakeTable(crc32.Castagnoli)
crc32c == [i \in 0..255 |-> TableEntry(U32(0, i), 8)]

RECURSIVE CrcBytes(_, _, _)
CrcBytes(crc, p, i) ==
    IF i > Len(p) THEN crc
    ELSE CrcBytes(Xor32(crc32c[Xor(crc[2] % 256, p[i])], Shr32(crc, 8)),
                  p, i + 1)

\* crc32.Update(crc, crc32c, p)
Update(crc, p) == Not32(CrcBytes(Not32(crc), p, 1))

\* crc32.Checksum(data, crc32c)
Checksum(data) == Update(Zero32, data)

\* ------------------------------------------------------------ strings

\* strings.TrimSpace, on ASCII text: '\t', '\n', '\v', '\f', '\r', ' '
IsSpace(c) == c \in {9, 10, 11, 12, 13, 32}

RECURSIVE TrimLeft(_)
TrimLeft(s) ==
    IF s # <<>> /\ IsSpace(Head(s)) THEN TrimLeft(Tail(s)) ELSE s

RECURSIVE TrimRight(_)
TrimRight(s) ==
    IF s # <<>> /\ IsSpace(s[Len(s)])
    THEN TrimRight(SubSeq(s, 1, Len(s) - 1)) ELSE s

TrimSpace(s) == TrimRight(TrimLeft(s))

\* strconv.Itoa, for i >= 0: the decimal digits, '0' is 48
RECURSIVE Itoa(_)
Itoa(i) ==
    IF i < 10 THEN <<48 + i>> ELSE Itoa(i \div 10) \o <<48 + (i % 10)>>

\* "xmlns"
xmlns == <<120, 109, 108, 110, 115>>

\* ------------------------------------------------------------ the Node

nil == 0

\* xml.Name
Name(space, local) == [Space |-> space, Local |-> local]

\* xml.Attr
Attr(space, local, value) == [Name |-> Name(space, local), Value |-> value]

(* The fields of Node that the decoder fills (XMLName, Attrs, CharData and *)
(* Children; Children holds the indices of the child nodes). Parent and   *)
(* Hash are the variables below.                                           *)
Node(local, attrs, chardata, children) ==
    [XMLName |-> Name(<<>>, local), Attrs |-> attrs,
     CharData |-> chardata, Children |-> children]

AttrName(attr) == attr.Name.Local

AttrSpace(attr) == attr.Name.Space

AttrValue(attr) == attr.Value

\* isNameSpaceAttr that misses the prefixed form xmlns:p
isNameSpaceAttrLocalOnly(attr) == AttrName(attr) = xmlns

isNameSpaceAttr(attr) == AttrSpace(attr) = xmlns \/ AttrName(attr) = xmlns

\* ------------------------------------------------------------- Walk

(* node.Walk(f) on tree t. The visitor f is given by the values it returns *)
(* call by call: f[k] is what its k-th call returns. The result is the    *)
(* sequence of nodes f was called on, calls made before this one included  *)
(* (visited).                                                              *)
RECURSIVE Walk(_, _, _, _)
RECURSIVE WalkChildren(_, _, _, _, _)
Walk(t, node, f, visited) ==
    LET called == Append(visited, node)
    IN  IF ~f[Len(called)]
        THEN called
        ELSE WalkChildren(t, node, 1, f, called)

\* for i := range node.Children { node.Children[i].Walk(f) }
WalkChildren(t, node, i, f, visited) ==
    IF i > Len(t[node].Children)
    THEN visited
    ELSE WalkChildren(t, node, i + 1, f,
                      Walk(t, t[node].Children[i], f, visited))

\* --------------------------------------------------------- hashCode

(* A write of node.Hash: the field takes the value and the write is       *)
(* recorded in stores[node]. h is [Hash, stores, ret]: the Hash fields,   *)
(* the writes made to each of them, and the values hashCode returned for  *)
(* each node, in the order of the calls.                                  *)
Store(h, node, v) ==
    [h EXCEPT !.Hash[node] = v, !.stores[node] = Append(@, v)]

Return(h, node) == [h EXCEPT !.ret[node] = Append(@, h.Hash[node])]

\* the loop over node.Attrs, from its i-th attribute on
RECURSIVE FoldAttrs(_, _, _, _)
FoldAttrs(t, h, node, i) ==
    IF i > Len(t[node].Attrs)
    THEN h
    ELSE LET a == t[node].Attrs[i]
         IN  IF ~isNameSpaceAttr(a)
             THEN LET h1 == Store(h, node, Update(h.Hash[node], AttrName(a)))
                      h2 == Store(h1, node,
                                  Update(h1.Hash[node], AttrValue(a)))
                  IN  FoldAttrs(t, h2, node, i + 1)
             ELSE FoldAttrs(t, h, node, i + 1)

RECURSIVE hashCode(_, _, _)
RECURSIVE FoldChildren(_, _, _, _)

\* hashCode without `if node.Hash != 0 { return node.Hash }`
hashCodeNoCache(t, h, node) ==
    LET h1 == Store(h, node, Checksum(t[node].XMLName.Local))
        h2 == Store(h1, node,
                    Update(h1.Hash[node], TrimSpace(t[node].CharData)))
        h3 == FoldAttrs(t, h2, node, 1)
    IN  Return(FoldChildren(t, h3, node, 1), node)

\* hashCode that neither returns the cached value nor starts afresh: the
\* name is folded into the stored value like everything after it
hashCodeAccumulate(t, h, node) ==
    LET h1 == Store(h, node, Update(h.Hash[node], t[node].XMLName.Local))
        h2 == Store(h1, node,
                    Update(h1.Hash[node], TrimSpace(t[node].CharData)))
        h3 == FoldAttrs(t, h2, node, 1)
    IN  Return(FoldChildren(t, h3, node, 1), node)

\* func (node *Node) hashCode() uint32
hashCode(t, h, node) ==
    IF h.Hash[node] # Zero32
    THEN Return(h, node)
    ELSE LET h1 == Store(h, node, Checksum(t[node].XMLName.Local))
             h2 == Store(h1, node,
                         Update(h1.Hash[node], TrimSpace(t[node].CharData)))
             h3 == FoldAttrs(t, h2, node, 1)
         IN  Return(FoldChildren(t, h3, node, 1), node)

\* the loop over node.Children, from its i-th child on
FoldChildren(t, h, node, i) ==
    IF i > Len(t[node].Children)
    THEN h
    ELSE LET child == t[node].Children[i]
             hc == hashCode(t, h, child)
         IN  FoldChildren(t,
                 Store(hc, node, MulAdd31(hc.Hash[node], hc.Hash[child])),
                 node, i + 1)

\* ------------------------------------------------------------- Path

Concat(a, b) == a \o b

\* "/" + nodeName
Plain(nodeName) == Concat(<<47>>, nodeName)

\* "/" + nodeName + "[" + strconv.Itoa(i) + "]"
Indexed(nodeName, i) ==
    Concat(Concat(Concat(Plain(nodeName), <<91>>), Itoa(i)), <<93>>)

\* the scan of siblings comparing addresses: &siblings[i] == currNode
RECURSIVE ScanSiblingsByAddress(_, _, _, _, _)
ScanSiblingsByAddress(t, hash, siblings, currNode, i) ==
    IF i >= Len(siblings)
    THEN <<>>
    ELSE IF siblings[i + 1] = currNode
         THEN <<Indexed(t[currNode].XMLName.Local, i)>>
         ELSE ScanSiblingsByAddress(t, hash, siblings, currNode, i + 1)

\* the scan of siblings from index i (0-based) on: the segment appended
RECURSIVE ScanSiblings(_, _, _, _, _)
ScanSiblings(t, hash, siblings, currNode, i) ==
    IF i >= Len(siblings)
    THEN <<>>
    ELSE IF hash[siblings[i + 1]] = hash[currNode]
         THEN <<Indexed(t[currNode].XMLName.Local, i)>>
         ELSE ScanSiblings(t, hash, siblings, currNode, i + 1)

\* the loop without the case `len(siblings) == 1`
RECURSIVE PathSegmentsAllIndexed(_, _, _, _)
PathSegmentsAllIndexed(t, parent, hash, currNode) ==
    IF parent[currNode] # nil
    THEN ScanSiblings(t, hash, t[parent[currNode]].Children, currNode, 0)
         \o PathSegmentsAllIndexed(t, parent, hash, parent[currNode])
    ELSE <<Plain(t[currNode].XMLName.Local)>>

\* the loop `for currNode.Parent != nil`, and the append after it
RECURSIVE PathSegments(_, _, _, _)
PathSegments(t, parent, hash, currNode) ==
    IF parent[currNode] # nil
    THEN LET siblings == t[parent[currNode]].Children
             seg == IF Len(siblings) = 1
                    THEN <<Plain(t[currNode].XMLName.Local)>>
                    ELSE ScanSiblings(t, hash, siblings, currNode, 0)
         IN  seg \o PathSegments(t, parent, hash, parent[currNode])
    ELSE <<Plain(t[currNode].XMLName.Local)>>

Reverse(path) == [i \in 1..Len(path) |-> path[Len(path) - i + 1]]

\* strings.Join(path, "")
RECURSIVE Join(_)
Join(path) == IF path = <<>> THEN <<>> ELSE Head(path) \o Join(Tail(path))

\* func (node *Node) Path() string
Path(t, parent, hash, node) ==
    Join(Reverse(PathSegments(t, parent, hash, node)))

\* -------------------------------------------------------- documents

(* What dec.Decode(&root) leaves: the nodes in document order, node 1 the  *)
(* root. A shape gives every node's enclosing node (0 for the root); in   *)
(* document order the enclosing node of node i is node i-1 or one of its  *)
(* ancestors.                                                              *)
RECURSIVE AncestorsOrSelf(_, _)
AncestorsOrSelf(p, k) ==
    IF k = 1 THEN {1} ELSE {k} \cup AncestorsOrSelf(p, p[k])

Shapes(n) ==
    {p \in [1..n -> 0..(n - 1)] :
        /\ p[1] = 0
        /\ \A i \in 2..n : p[i] \in 1..(i - 1)
        /\ \A i \in 2..n : p[i] \in AncestorsOrSelf(p, i - 1)}

ChildrenOf(p, k) ==
    LET S == {i \in DOMAIN p : p[i] = k}
    IN  [j \in 1..Cardinality(S) |->
            CHOOSE i \in S : Cardinality({m \in S : m < i}) = j - 1]

\* <a/>, <ab/> and <a> b\n</a>: name and character data of an element
Kinds == {<< <<97>>, <<>> >>, << <<97, 98>>, <<>> >>,
          << <<97>>, <<32, 98, 10>> >>}

TreeDocs ==
    UNION {{[k \in 1..n |-> Node(c[k][1], <<>>, c[k][2], ChildrenOf(p, k))] :
               p \in Shapes(n), c \in [1..n -> Kinds]} : n \in 1..MaxNodes}

\* x="1", y="2", p:x="3" (p bound to "u"), xmlns="u", xmlns:p="u"
AttrPool ==
    {Attr(<<>>, <<120>>, <<49>>), Attr(<<>>, <<121>>, <<50>>),
     Attr(<<117>>, <<120>>, <<51>>),
     Attr(<<>>, xmlns, <<117>>), Attr(xmlns, <<112>>, <<117>>)}

AttrLists ==
    UNION {{a \in [1..n -> AttrPool] :
               \A i, j \in 1..n : i # j => a[i] # a[j]} : n \in 0..MaxAttrs}

\* <a .../> with each attribute list
AttrDocs == {<<Node(<<97>>, a, <<>>, <<>>)>> : a \in AttrLists}

(* <a><ggopdql/><ab/></a>: the CRC-32C of "ggopdql" is 0.                  *)
(* <a><aeaaaaa/><zzoxpha/></a> and its mirror: the CRC-32C of "aeaaaaa"   *)
(* and of "zzoxpha" differ by 2^31.                                        *)
ggopdql == <<103, 103, 111, 112, 100, 113, 108>>

aeaaaaa == <<97, 101, 97, 97, 97, 97, 97>>

zzoxpha == <<122, 122, 111, 120, 112, 104, 97>>

Leaf(local) == Node(local, <<>>, <<>>, <<>>)

NamedDocs ==
    {<<Node(<<97>>, <<>>, <<>>, <<2, 3>>), Leaf(ggopdql), Leaf(<<97, 98>>)>>,
     <<Node(<<97>>, <<>>, <<>>, <<2, 3>>), Leaf(aeaaaaa), Leaf(zzoxpha)>>,
     <<Node(<<97>>, <<>>, <<>>, <<2, 3>>), Leaf(zzoxpha), Leaf(aeaaaaa)>>}

Docs == TreeDocs \cup AttrDocs \cup NamedDocs

\* an xmlString the decoder rejects
NotWellFormed == <<>>

\* ------------------------------------------------------------ state

VARIABLES
    pc,        \* "init", then "built" (UnmarshalXML returned the root) or
               \* "error" (it returned the decoder's error)
    tree,      \* the decoded fields of the nodes, node 1 the root
    Parent,    \* Parent[n]: the field Parent of node n
    Hash,      \* Hash[n]: the field Hash of node n
    stores,    \* stores[n]: the values the last operation wrote to Hash[n]
    firstRet,  \* firstRet[n]: what the first call of hashCode on n returned
    op         \* the last operation and what it returned

vars == <<pc, tree, Parent, Hash, stores, firstRet, op>>

NoOp(kind, node) ==
    [kind |-> kind, node |-> node, f |-> <<>>, visited |-> <<>>,
     path |-> <<>>, ret |-> Zero32]

Init ==
    /\ pc = "init"
    /\ tree = <<>>
    /\ Parent = <<>>
    /\ Hash = <<>>
    /\ stores = <<>>
    /\ firstRet = <<>>
    /\ op = NoOp("none", nil)

\* the visitor ranging over copies of the children
\* (for _, c := range n.Children { c.Parent = n }): no node's Parent is set
SetParentsOfCopies(t, parent, n) == parent

\* the visitor of UnmarshalXML on node n: n.Children[i].Parent = n
SetParents(t, parent, n) ==
    [c \in DOMAIN parent |->
        IF \E i \in 1..Len(t[n].Children) : t[n].Children[i] = c
        THEN n ELSE parent[c]]

RECURSIVE VisitAll(_, _, _, _)
VisitAll(t, parent, visited, k) ==
    IF k > Len(visited) THEN parent
    ELSE VisitAll(t, SetParents(t, parent, visited[k]), visited, k + 1)

NoStores(t) == [n \in DOMAIN t |-> <<>>]

\* func UnmarshalXML(xmlString string) (*Node, error)
UnmarshalXML(x) ==
    /\ pc = "init"
    /\ IF x = NotWellFormed
       THEN /\ pc' = "error"
            /\ op' = NoOp("UnmarshalXML", nil)
            /\ UNCHANGED <<tree, Parent, Hash, stores, firstRet>>
       ELSE LET visited == Walk(x, 1, [k \in DOMAIN x |-> TRUE], <<>>)
                parent == VisitAll(x, [n \in DOMAIN x |-> nil], visited, 1)
                h == hashCode(x, [Hash |-> [n \in DOMAIN x |-> Zero32],
                                  stores |-> NoStores(x),
                                  ret |-> NoStores(x)], 1)
            IN  /\ pc' = "built"
                /\ tree' = x
                /\ Parent' = parent
                /\ Hash' = h.Hash
                /\ stores' = h.stores
                /\ firstRet' = [n \in DOMAIN x |->
                                   IF h.ret[n] = <<>> THEN <<>>
                                   ELSE <<h.ret[n][1]>>]
                /\ op' = [NoOp("UnmarshalXML", 1) EXCEPT !.visited = visited]

\* root.Walk(f), f returning f[k] at its k-th call
WalkCall(f) ==
    /\ pc = "built"
    /\ LET visited == Walk(tree, 1, f, <<>>)
       IN  op' = [NoOp("Walk", 1) EXCEPT
                     !.visited = visited,
                     !.f = SubSeq(f, 1, Len(visited))]
    /\ stores' = NoStores(tree)
    /\ UNCHANGED <<pc, tree, Parent, Hash, firstRet>>

\* node.Path()
PathCall(node) ==
    /\ pc = "built"
    /\ op' = [NoOp("Path", node) EXCEPT
                 !.path = Path(tree, Parent, Hash, node)]
    /\ stores' = NoStores(tree)
    /\ UNCHANGED <<pc, tree, Parent, Hash, firstRet>>

\* node.hashCode()
HashCodeCall(node) ==
    /\ pc = "built"
    /\ LET h == hashCode(tree, [Hash |-> Hash, stores |-> NoStores(tree),
                                ret |-> NoStores(tree)], node)
       IN  /\ Hash' = h.Hash
           /\ stores' = h.stores
           /\ op' = [NoOp("hashCode", node) EXCEPT !.ret = h.Hash[node]]
    /\ UNCHANGED <<pc, tree, Parent, firstRet>>

Next ==
    \/ \E x \in Docs \cup {NotWellFormed} : UnmarshalXML(x)
    \/ \E f \in [DOMAIN tree -> BOOLEAN] : WalkCall(f)
    \/ \E node \in DOMAIN tree : PathCall(node)
    \/ \E node \in DOMAIN tree : HashCodeCall(node)

Spec == Init /\ [][Next]_vars

\* ------------------------------------------- the tree, structurally

Nodes == DOMAIN tree

Built == pc = "built"

Range(q) == {q[i] : i \in DOMAIN q}

\* the node whose Children holds n (nil for the root)
Encloser(n) ==
    IF \E p \in Nodes : n \in Range(tree[p].Children)
    THEN CHOOSE p \in Nodes : n \in Range(tree[p].Children)
    ELSE nil

\* the nodes from the root down to n
RECURSIVE Chain(_)
Chain(n) == IF Encloser(n) = nil THEN <<n>> ELSE Append(Chain(Encloser(n)), n)

Depth(n) == Len(Chain(n)) - 1

\* the 0-based position of n among the children of its encloser
OwnIndex(n) ==
    LET sib == tree[Encloser(n)].Children
    IN  (CHOOSE i \in 1..Len(sib) : sib[i] = n) - 1

HasSiblings(n) ==
    Encloser(n) # nil /\ Len(tree[Encloser(n)].Children) >= 2

\* k Parent links up from n
RECURSIVE Climb(_, _)
Climb(n, k) == IF k = 0 \/ n = nil THEN n ELSE Climb(Parent[n], k - 1)

IsSuffix(s, q) ==
    Len(s) <= Len(q) /\ SubSeq(q, Len(q) - Len(s) + 1, Len(q)) = s

\* the pieces of a path, each from a '/' to just before the next one
Segments(q) ==
    LET S == {i \in 1..Len(q) : q[i] = 47}
        At(k) == CHOOSE i \in S : Cardinality({m \in S : m < i}) = k - 1
    IN  [k \in 1..Cardinality(S) |->
            SubSeq(q, At(k),
                   IF k = Cardinality(S) THEN Len(q) ELSE At(k + 1) - 1)]

\* ------------------------------------------------------------ claims

(* C1: once the visitor returns false, Walk calls it on no further node:  *)
(* the only call that returned false is the last one (so a visitor that   *)
(* returns false on its second call is called exactly twice).             *)
C1_StopsAtFirstFalse ==
    op.kind = "Walk" =>
        \A k \in 1..Len(op.visited) : ~op.f[k] => k = Len(op.visited)

(* C2: for a node whose parent has two or more children, Path() ends with *)
(* "/" + name + "[" + i + "]", i the node's own 0-based position among    *)
(* its parent's Children.                                                 *)
C2_OwnIndex ==
    (op.kind = "Path" /\ HasSiblings(op.node)) =>
        IsSuffix(Indexed(tree[op.node].XMLName.Local, OwnIndex(op.node)),
                 op.path)

\* the smallest 0-based i with the fingerprint of sibling i that of n
FirstMatch(n) ==
    LET sib == tree[Encloser(n)].Children
        M == {i \in 1..Len(sib) : Hash[sib[i]] = Hash[n]}
    IN  (CHOOSE i \in M : \A j \in M : i <= j) - 1

C4_OneSegmentPerLevel ==
    op.kind = "Path" =>
        LET chain == Chain(op.node)
            segs == Segments(op.path)
        IN  /\ Join(segs) = op.path
            /\ Len(segs) = Len(chain)
            /\ \A k \in 1..Len(chain) :
                  LET local == tree[chain[k]].XMLName.Local
                  IN  IF HasSiblings(chain[k])
                      THEN \E i \in 0..(Len(tree[Encloser(chain[k])].Children) - 1) :
                              segs[k] = Indexed(local, i)
                      ELSE segs[k] = Plain(local)

\* Path() was called on an only child two levels or more below the root,
\* in a tree where an ancestor of it has siblings.
C4_Witness ==
    /\ op.kind = "Path"
    /\ Depth(op.node) >= 2
    /\ ~HasSiblings(op.node)
    /\ \E k \in 1..Len(Chain(op.node)) : HasSiblings(Chain(op.node)[k])
    /\ IsSuffix(Plain(tree[op.node].XMLName.Local), op.path)

(* C5: when UnmarshalXML returned a root, the root's Parent is nil, the   *)
(* Parent of every other node is the node whose Children holds it, and    *)
(* Depth(n) Parent links up from n end at the root.                       *)
C5_ParentIsEncloser ==
    Built =>
        /\ Parent[1] = nil
        /\ \A n \in Nodes \ {1} : Parent[n] # nil /\ Parent[n] = Encloser(n)
        /\ \A n \in Nodes :
              /\ Climb(n, Depth(n)) = 1
              /\ \A k \in 0..(Depth(n) - 1) : Climb(n, k) # 1

\* UnmarshalXML returned a tree with a node two levels below the root.
C5_Witness ==
    Built /\ \E n \in Nodes : Depth(n) >= 2 /\ Parent[Parent[n]] = 1

\* ----------------------------------------------- fingerprint claims

\* the fingerprint hashCode computes for node n of a tree t just decoded
Fingerprint(t, n) ==
    hashCode(t, [Hash |-> [m \in DOMAIN t |-> Zero32],
                 stores |-> NoStores(t), ret |-> NoStores(t)], n).Hash[n]

JustBuilt == Built /\ op.kind = "UnmarshalXML"

\* a node and everything below it, as a value
RECURSIVE Content(_)
Content(n) ==
    [XMLName |-> tree[n].XMLName, Attrs |-> tree[n].Attrs,
     CharData |-> tree[n].CharData,
     Children |-> [k \in 1..Len(tree[n].Children) |->
                      Content(tree[n].Children[k])]]

\* the tree with the i-th and j-th child of n exchanged
SwapChildren(n, i, j) ==
    LET c == tree[n].Children
    IN  [tree EXCEPT ![n].Children =
            [k \in 1..Len(c) |->
                IF k = i THEN c[j] ELSE IF k = j THEN c[i] ELSE c[k]]]

ChildPairs(n) ==
    {ij \in (1..Len(tree[n].Children)) \X (1..Len(tree[n].Children)) :
        ij[1] < ij[2]}

(* C6: exchanging two children of different content changes the parent's  *)
(* fingerprint.                                                           *)
C6_SwapChangesFingerprint ==
    JustBuilt =>
        \A n \in Nodes : \A ij \in ChildPairs(n) :
            Content(tree[n].Children[ij[1]]) # Content(tree[n].Children[ij[2]])
                => Fingerprint(SwapChildren(n, ij[1], ij[2]), n) # Hash[n]

\* x + y and 31^d * x in uint32
Sum32(x, y) ==
    LET lo == x[2] + y[2]
    IN  U32((x[1] + y[1] + lo \div Half) % Half, lo % Half)

RECURSIVE Times31Pow(_, _)
Times31Pow(x, d) ==
    IF d = 0 THEN x
    ELSE LET lo == 31 * x[2]
         IN  Times31Pow(U32((31 * x[1] + lo \div Half) % Half, lo % Half),
                        d - 1)

\* (31^d - 1) * (x - y) is not 0 in uint32: 31^d*x + y # 31^d*y + x
SwapVisible(x, y, d) ==
    Sum32(Times31Pow(x, d), y) # Sum32(Times31Pow(y, d), x)

(* C6, amended: exchanging the children at positions i < j changes the    *)
(* parent's fingerprint exactly when (31^(j-i) - 1) * (f_i - f_j) is not  *)
(* 0 modulo 2^32, f_i and f_j being the two children's fingerprints.      *)
C6_SwapChangesUnlessCongruent ==
    JustBuilt =>
        \A n \in Nodes : \A ij \in ChildPairs(n) :
            (Fingerprint(SwapChildren(n, ij[1], ij[2]), n) # Hash[n])
                <=> SwapVisible(Hash[tree[n].Children[ij[1]]],
                                Hash[tree[n].Children[ij[2]]],
                                ij[2] - ij[1])

\* A node with three children whose first and third have different
\* fingerprints, and exchanging them changes the node's fingerprint.
C6_Witness ==
    /\ JustBuilt
    /\ \E n \in Nodes :
          /\ Len(tree[n].Children) = 3
          /\ Hash[tree[n].Children[1]] # Hash[tree[n].Children[3]]
          /\ Fingerprint(SwapChildren(n, 1, 3), n) # Hash[n]

Permutations(k) ==
    {q \in [1..k -> 1..k] : \A i, j \in 1..k : i # j => q[i] # q[j]}

\* the tree with the attributes of n in the order q
PermuteAttrs(n, q) ==
    [tree EXCEPT ![n].Attrs = [k \in 1..Len(tree[n].Attrs) |->
                                  tree[n].Attrs[q[k]]]]

(* C7: every permutation of an element's attribute list gives the        *)
(* element the same fingerprint.                                          *)
C7_AttrOrderIrrelevant ==
    JustBuilt =>
        \A n \in Nodes : \A q \in Permutations(Len(tree[n].Attrs)) :
            Fingerprint(PermuteAttrs(n, q), n) = Hash[n]

\* namespace declarations: xmlns="..." and xmlns:p="...", xmlns:x="..."
NsDecls ==
    {Attr(<<>>, xmlns, v) : v \in {<<>>, <<117>>, <<49>>}}
        \cup {Attr(xmlns, q, v) : q \in {<<112>>, <<120>>},
                                  v \in {<<>>, <<117>>, <<49>>}}

IsNsDecl(a) == a \in NsDecls

InsertAt(q, k, a) == SubSeq(q, 1, k) \o <<a>> \o SubSeq(q, k + 1, Len(q))

RemoveAt(q, k) == SubSeq(q, 1, k - 1) \o SubSeq(q, k + 1, Len(q))

(* C8: adding a namespace declaration at any position of an element's     *)
(* attribute list, or removing one, leaves the element's fingerprint      *)
(* unchanged.                                                             *)
C8_NamespaceDeclsIgnored ==
    JustBuilt =>
        \A n \in Nodes :
            /\ \A a \in NsDecls : \A k \in 0..Len(tree[n].Attrs) :
                  Fingerprint([tree EXCEPT ![n].Attrs = InsertAt(@, k, a)], n)
                      = Hash[n]
            /\ \A k \in 1..Len(tree[n].Attrs) :
                  IsNsDecl(tree[n].Attrs[k]) =>
                      Fingerprint([tree EXCEPT ![n].Attrs = RemoveAt(@, k)], n)
                          = Hash[n]

\* An element with a prefixed namespace declaration among other
\* attributes: removing the declaration keeps the fingerprint, removing
\* another attribute changes it.
C8_Witness ==
    /\ JustBuilt
    /\ \E n \in Nodes : \E k, m \in 1..Len(tree[n].Attrs) :
          /\ tree[n].Attrs[k].Name.Space = xmlns
          /\ ~IsNsDecl(tree[n].Attrs[m])
          /\ Fingerprint([tree EXCEPT ![n].Attrs = RemoveAt(@, k)], n)
                = Hash[n]
          /\ Fingerprint([tree EXCEPT ![n].Attrs = RemoveAt(@, m)], n)
                # Hash[n]

(* C9: a later call of hashCode on a node returns what the first call on  *)
(* that node returned and leaves the Hash of every other node as it was.  *)
C9_SecondCallSame ==
    [][(Built /\ op'.kind = "hashCode") =>
          /\ op'.ret = firstRet[op'.node][1]
          /\ \A m \in Nodes \ {op'.node} : Hash'[m] = Hash[m]]_vars

\* hashCode was called again on a node with children and returned what
\* its first call returned.
C9_Witness ==
    /\ op.kind = "hashCode"
    /\ tree[op.node].Children # <<>>
    /\ op.ret = firstRet[op.node][1]
    /\ op.ret # Zero32

\* the values a field goes through, from value v on, under the writes w
RECURSIVE Changes(_, _)
Changes(v, w) ==
    IF w = <<>> THEN <<>>
    ELSE IF Head(w) = v THEN Changes(v, Tail(w))
         ELSE <<Head(w)>> \o Changes(Head(w), Tail(w))

====
